---- MODULE Spec2Model ----
(***************************************************************************)
(* Option Portfolio Hedge Scanner (src/app.py), a Streamlit script.        *)
(*                                                                         *)
(* The script is re-run from the top on every interaction.  Its state is   *)
(* the content of the portfolio editor (portfolio_data), the session state *)
(* written by the "Scan Hedges" handler (session_state) and what the last  *)
(* run put on the page.  The results block first shows the stored net      *)
(* Greeks, then runs three SLSQP solves and renders the scenario table and *)
(* the recommended trades.                                                 *)
(*                                                                         *)
(* Numbers.  The per-bbl columns and the net Greeks are floats in the      *)
(* code; here they are fixed-point integers counted in 1/Unit, and solver  *)
(* quantities are counted in 1/QtyUnit bbl so that the rounding done by    *)
(* the page is a real conversion.  NaN (an empty cell) is the empty tuple, *)
(* a number n is <<n>>.                                                    *)
(***************************************************************************)
EXTENDS Integers, Sequences, FiniteSets, TLC

VARIABLES
    portfolio_data,   \* rows of the sidebar data editor
    session_state,    \* st.session_state: <<>> until the first scan
    view,             \* metrics and portfolio summary of the last run
    pc,               \* where the running script stands in the results block
    res_delta,        \* result of the delta-neutral solve
    res_dv,           \* result of the delta+vega solve
    res_full,         \* result of the full Greek solve
    hedge_scenarios,  \* the rendered scenario table
    trades,           \* the rendered recommended trades
    edits             \* number of editor interactions so far

vars == <<portfolio_data, session_state, view, pc, res_delta, res_dv,
          res_full, hedge_scenarios, trades, edits>>

(***************************************************************************)
(* Bounds of the model.                                                    *)
(***************************************************************************)
MaxEdits == 2      \* editor interactions explored from the default table
MaxLots == 1       \* position sizes 0 .. MaxLots * Step
MaxBook == 2       \* rows of a directly entered portfolio
TradeQMax == 23    \* largest solver quantity, in 1/QtyUnit bbl, fed to the trade list
HedgeLot == 20     \* bbl held by the books that seed the solves, and the solver's grid step

(***************************************************************************)
(* Fixed-point scales and program constants.                               *)
(***************************************************************************)
Unit == 200          \* per-bbl values and net Greeks are counted in 1/200
QtyUnit == 2         \* solver quantities are counted in half barrels
Step == 1000         \* Position_bbl step of the editor
Band == 10           \* abs(qty) > 10 gates a recommended trade
PenaltyScale == 100  \* cost + 100 * greek_error
GammaWeight == 10
VegaWeight == 5
QtyBound == 50000    \* bounds=[(-50000, 50000)]

NaN == <<>>
Num(n) == <<n>>
IsNaN(c) == c = NaN
Val(c) == c[1]

Abs(n) == IF n < 0 THEN -n ELSE n

\* -x on a float column: NaN stays NaN.
Neg(c) == IF IsNaN(c) THEN NaN ELSE Num(-Val(c))

\* a * b on float columns: NaN if either is NaN.
Mul(a, b) == IF IsNaN(a) \/ IsNaN(b) THEN NaN ELSE Num(Val(a) * Val(b))

\* Round n/d to the nearest integer, ties to even (format ",.0f" and ndarray.round).
RoundHalfEven(n, d) ==
    LET q == n \div d
        r == n % d
    IN  IF 2 * r < d THEN q
        ELSE IF 2 * r > d THEN q + 1
        ELSE IF q % 2 = 0 THEN q ELSE q + 1

(***************************************************************************)
(* The portfolio editor.                                                   *)
(***************************************************************************)
GreekCols == {"Delta_per_bbl", "Gamma_per_bbl", "Vega_per_bbl", "Theta_per_bbl"}

Row(name, ls, pos, d, g, v, t) ==
    [Instrument |-> name, LongShort |-> ls, Position_bbl |-> pos,
     Delta_per_bbl |-> d, Gamma_per_bbl |-> g, Vega_per_bbl |-> v,
     Theta_per_bbl |-> t]

\* The table the editor is constructed with.
DefaultPortfolio ==
    << Row("Call 80", "Long", Num(10000), Num(90), Num(6), Num(30), Num(-10)),
       Row("Put 75", "Long", Num(5000), Num(70), Num(8), Num(24), Num(-8)),
       Row("Call 85", "Short", Num(8000), Num(50), Num(4), Num(16), Num(-6)),
       Row("WTI Future", "Short", Num(0), Num(200), Num(0), Num(0), Num(0)) >>

\* default_greeks_long: the values a Greek cell is edited to.
default_greeks_long ==
    [Delta_per_bbl |-> Num(90), Gamma_per_bbl |-> Num(6),
     Vega_per_bbl |-> Num(30), Theta_per_bbl |-> Num(-10)]

\* A row added in the editor: only Long/Short has a default.
BlankRow == Row("None", "Long", NaN, NaN, NaN, NaN, NaN)

\* Values the Long/Short selectbox cell can hold ("None": cleared).
LongShortValues == {"Long", "Short", "None"}

\* Values a Position_bbl cell can hold (min_value = 0, or cleared).
PositionValues == {NaN} \cup {Num(k * Step) : k \in 0..MaxLots}

(***************************************************************************)
(* The "Scan Hedges" handler.                                              *)
(***************************************************************************)
\* df_port.dropna(subset=["Position_bbl"])
DropNa(rows) == SelectSeq(rows, LAMBDA r : ~IsNaN(r.Position_bbl))

\* Faulty variants of Effective: the sign is never flipped; the sign is
\* flipped for Long instead of Short.
Effective_NoFlip(ls, g) == g

Effective_FlipLong(ls, g) == IF ls = "Long" THEN Neg(g) ELSE g

\* np.where(df_port['Long/Short'] == 'Short', -g, g)
Effective(ls, g) == IF ls = "Short" THEN Neg(g) ELSE g

\* df_port with the four effective_* columns added.
WithEffective(r) ==
    [Instrument |-> r.Instrument, LongShort |-> r.LongShort,
     Position_bbl |-> r.Position_bbl,
     Delta_per_bbl |-> r.Delta_per_bbl, Gamma_per_bbl |-> r.Gamma_per_bbl,
     Vega_per_bbl |-> r.Vega_per_bbl, Theta_per_bbl |-> r.Theta_per_bbl,
     effective_delta |-> Effective(r.LongShort, r.Delta_per_bbl),
     effective_gamma |-> Effective(r.LongShort, r.Gamma_per_bbl),
     effective_vega |-> Effective(r.LongShort, r.Vega_per_bbl),
     effective_theta |-> Effective(r.LongShort, r.Theta_per_bbl)]

df_port(rows) == [i \in 1..Len(DropNa(rows)) |-> WithEffective(DropNa(rows)[i])]

\* Series.sum(): NaN entries are skipped, the empty sum is 0.
RECURSIVE SumSkipNa(_)
SumSkipNa(s) ==
    IF s = <<>> THEN 0
    ELSE (IF IsNaN(Head(s)) THEN 0 ELSE Val(Head(s))) + SumSkipNa(Tail(s))

\* Faulty variant of NetGreek: the position size is left out.
NetGreek_NoSize(df, col) == SumSkipNa([i \in 1..Len(df) |-> df[i][col]])

\* (df_port[col] * df_port['Position_bbl']).sum()
NetGreek(df, col) ==
    SumSkipNa([i \in 1..Len(df) |-> Mul(df[i][col], df[i].Position_bbl)])

\* The hedge menu built by the handler.
hedge_names == <<"WTI Future", "Call 82.5", "Put 77.5", "Call 85">>
hedge_greeks ==
    [Delta_per_bbl |-> <<200, 110, 50, 30>>,
     Gamma_per_bbl |-> <<0, 5, 7, 2>>,
     Vega_per_bbl |-> <<0, 36, 28, 12>>]
hedge_costs == <<0, 360, 290, 150>>

\* What the handler stores in st.session_state.
ScanResult(rows) ==
    LET df == df_port(rows)
    IN  [net_greeks |-> [delta |-> NetGreek(df, "effective_delta"),
                         gamma |-> NetGreek(df, "effective_gamma"),
                         vega |-> NetGreek(df, "effective_vega"),
                         theta |-> NetGreek(df, "effective_theta")],
         hedge_greeks |-> hedge_greeks,
         hedge_costs |-> hedge_costs,
         hedge_names |-> hedge_names,
         portfolio |-> df]

(***************************************************************************)
(* The results block, up to the solves.                                    *)
(***************************************************************************)
HasResults(ss) == "net_greeks" \in DOMAIN ss

\* The four st.metric calls: ",.0f" for delta, vega and theta, ",.1f" for gamma
\* (held in tenths).
Metrics(net) ==
    [delta |-> RoundHalfEven(net.delta, Unit),
     gamma |-> RoundHalfEven(10 * net.gamma, Unit),
     vega |-> RoundHalfEven(net.vega, Unit),
     theta |-> RoundHalfEven(net.theta, Unit)]

\* The args of the three minimize calls.
Targets(net) ==
    [delta |-> [delta |-> net.delta, gamma |-> 0, vega |-> 0],
     dv |-> [delta |-> net.delta, gamma |-> 0, vega |-> net.vega],
     full |-> [delta |-> net.delta, gamma |-> net.gamma, vega |-> net.vega]]

\* Faulty variant of ShowResults: the session state is asked for a key the
\* handler never writes.
ShowResults_WrongKey(ss) ==
    IF "net_greek" \in DOMAIN ss
    THEN [kind |-> "results",
          metrics |-> Metrics(ss.net_greeks),
          summary |-> ss.portfolio]
    ELSE [kind |-> "info"]

\* What a run of the script shows from the session state: the info line, or
\* the metrics and the portfolio summary of the stored scan.
ShowResults(ss) ==
    IF HasResults(ss)
    THEN [kind |-> "results",
          metrics |-> Metrics(ss.net_greeks),
          summary |-> ss.portfolio]
    ELSE [kind |-> "info"]

NotRun == [ran |-> FALSE]

\* A run of the script with the button not pressed: the page is rebuilt from
\* the session state, and the results block starts over.
Rerun(ss) ==
    /\ view' = ShowResults(ss)
    /\ pc' = IF HasResults(ss) THEN "solve_delta" ELSE "done"
    /\ res_delta' = NotRun
    /\ res_dv' = NotRun
    /\ res_full' = NotRun
    /\ hedge_scenarios' = <<>>
    /\ trades' = <<>>

(***************************************************************************)
(* Editor interactions.  Each one re-runs the script with the button not   *)
(* pressed, so the session state is left as it is.                         *)
(***************************************************************************)
EditLongShort(i, v) ==
    /\ edits < MaxEdits
    /\ i \in 1..Len(portfolio_data)
    /\ v # portfolio_data[i].LongShort
    /\ portfolio_data' = [portfolio_data EXCEPT ![i].LongShort = v]
    /\ edits' = edits + 1
    /\ UNCHANGED session_state
    /\ Rerun(session_state)

EditPosition(i, v) ==
    /\ edits < MaxEdits
    /\ i \in 1..Len(portfolio_data)
    /\ v # portfolio_data[i].Position_bbl
    /\ portfolio_data' = [portfolio_data EXCEPT ![i].Position_bbl = v]
    /\ edits' = edits + 1
    /\ UNCHANGED session_state
    /\ Rerun(session_state)

EditGreek(i, col) ==
    /\ edits < MaxEdits
    /\ i \in 1..Len(portfolio_data)
    /\ default_greeks_long[col] # portfolio_data[i][col]
    /\ portfolio_data' = [portfolio_data EXCEPT ![i][col] = default_greeks_long[col]]
    /\ edits' = edits + 1
    /\ UNCHANGED session_state
    /\ Rerun(session_state)

AddRow ==
    /\ edits < MaxEdits
    /\ portfolio_data' = Append(portfolio_data, BlankRow)
    /\ edits' = edits + 1
    /\ UNCHANGED session_state
    /\ Rerun(session_state)

\* Rows selected in the editor and deleted together.
DeleteRows(del) ==
    /\ edits < MaxEdits
    /\ del # {}
    /\ del \subseteq 1..Len(portfolio_data)
    /\ LET keep(s) == SelectSeq(s, LAMBDA p : p[1] \notin del)
           indexed == [i \in 1..Len(portfolio_data) |-> <<i, portfolio_data[i]>>]
       IN  portfolio_data' = [i \in 1..Len(keep(indexed)) |-> keep(indexed)[i][2]]
    /\ edits' = edits + 1
    /\ UNCHANGED session_state
    /\ Rerun(session_state)

\* The button: the handler stores the scan and calls st.rerun(), and the new
\* run shows it.
ScanHedges ==
    /\ session_state' = ScanResult(portfolio_data)
    /\ UNCHANGED <<portfolio_data, edits>>
    /\ Rerun(session_state')

(***************************************************************************)
(* Spec: the session.  The script starts with the default table and an     *)
(* empty session state; the user edits the table and presses the button.   *)
(* The solves of the results block write none of portfolio_data,           *)
(* session_state and view; they are explored by SpecHedge from the state   *)
(* a scan leaves.                                                          *)
(***************************************************************************)
Init ==
    /\ portfolio_data = DefaultPortfolio
    /\ session_state = <<>>
    /\ view = ShowResults(<<>>)
    /\ pc = "done"
    /\ res_delta = NotRun
    /\ res_dv = NotRun
    /\ res_full = NotRun
    /\ hedge_scenarios = <<>>
    /\ trades = <<>>
    /\ edits = 0

Next ==
    \/ \E i \in 1..Len(portfolio_data), v \in LongShortValues : EditLongShort(i, v)
    \/ \E i \in 1..Len(portfolio_data), v \in PositionValues : EditPosition(i, v)
    \/ \E i \in 1..Len(portfolio_data), col \in GreekCols : EditGreek(i, col)
    \/ AddRow
    \/ \E del \in SUBSET (1..Len(portfolio_data)) : DeleteRows(del)
    \/ ScanHedges

Spec == Init /\ [][Next]_vars

(***************************************************************************)
(* SpecAggregate: the scan as a function of the table.  The editor holds   *)
(* any table of up to MaxBook rows, each an instrument of the default      *)
(* table with any Long/Short value and any position.                       *)
(***************************************************************************)
BookRows ==
    { [DefaultPortfolio[k] EXCEPT !.LongShort = ls, !.Position_bbl = pos] :
        k \in 1..Len(DefaultPortfolio), ls \in LongShortValues, pos \in PositionValues }

Books == UNION { [1..n -> BookRows] : n \in 0..MaxBook }

InitAggregate ==
    /\ portfolio_data \in Books
    /\ session_state = <<>>
    /\ view = ShowResults(<<>>)
    /\ pc = "done"
    /\ res_delta = NotRun
    /\ res_dv = NotRun
    /\ res_full = NotRun
    /\ hedge_scenarios = <<>>
    /\ trades = <<>>
    /\ edits = 0

SpecAggregate == InitAggregate /\ [][ScanHedges]_vars

(***************************************************************************)
(* The results block: the objective and the three solves.                  *)
(***************************************************************************)
Hedges == 1..Len(hedge_names)

RECURSIVE DotFrom(_, _, _)
DotFrom(a, x, i) ==
    IF i > Len(a) THEN 0 ELSE a[i] * x[i] + DotFrom(a, x, i + 1)

\* a @ x
Dot(a, x) == DotFrom(a, x, 1)

\* hedge_greeks[:, k] @ x - target, counted in 1/(Unit * QtyUnit).
GreekGap(ss, col, x, target) == Dot(ss.hedge_greeks[col], x) - QtyUnit * target

\* np.abs(hedge_costs @ x), counted in 1/(Unit * QtyUnit) dollars.
AbsCost(ss, x) == Abs(Dot(ss.hedge_costs, x))

\* hedge_cost(x, target_delta, target_gamma, target_vega): cost + 100 *
\* greek_error, multiplied by (Unit * QtyUnit)^2 / PenaltyScale so that it is
\* an integer.
hedge_cost(ss, x, t) ==
    LET hedge_delta == GreekGap(ss, "Delta_per_bbl", x, t.delta)
        hedge_gamma == GreekGap(ss, "Gamma_per_bbl", x, t.gamma)
        hedge_vega == GreekGap(ss, "Vega_per_bbl", x, t.vega)
        greek_error == hedge_delta * hedge_delta
                       + GammaWeight * hedge_gamma * hedge_gamma
                       + VegaWeight * hedge_vega * hedge_vega
    IN  ((Unit * QtyUnit) \div PenaltyScale) * AbsCost(ss, x) + greek_error

\* A quantity vector with a on leg i, b on leg j and nothing elsewhere.
Pair(i, a, j, b) ==
    [k \in Hedges |-> IF k = i THEN a ELSE IF k = j THEN b ELSE 0]

\* The points of the box bounds=[(-50000, 50000)] * n_hedges the solver is
\* taken to stop at: x0 = 0, and one or two legs of HedgeLot bbl.
Iterates ==
    LET q == QtyUnit * HedgeLot
    IN  { x \in { Pair(i, a, j, b) : i \in Hedges, j \in Hedges,
                                     a \in {-q, 0, q}, b \in {-q, 0, q} } :
            \A k \in Hedges : Abs(x[k]) <= QtyUnit * QtyBound }

\* What minimize(hedge_cost, ..., method="SLSQP", maxiter=100) can return: a
\* minimiser of the objective with success set, or, when the iteration budget
\* runs out first, any point of the box with success cleared.
Minimize(ss, t) ==
    LET best == { x \in Iterates :
                    \A y \in Iterates : hedge_cost(ss, x, t) <= hedge_cost(ss, y, t) }
    IN  { [ran |-> TRUE, x |-> x, success |-> TRUE] : x \in best }
        \cup { [ran |-> TRUE, x |-> x, success |-> FALSE] : x \in Iterates }

SolveDelta ==
    /\ pc = "solve_delta"
    /\ res_delta' \in Minimize(session_state, Targets(session_state.net_greeks).delta)
    /\ pc' = "solve_dv"
    /\ UNCHANGED <<portfolio_data, session_state, view, res_dv, res_full,
                   hedge_scenarios, trades, edits>>

\* The solver is a function of its arguments: a solve with the arguments of
\* an earlier one returns what that one returned.
SolveDV ==
    /\ pc = "solve_dv"
    /\ LET t == Targets(session_state.net_greeks)
       IN  IF t.dv = t.delta
           THEN res_dv' = res_delta
           ELSE res_dv' \in Minimize(session_state, t.dv)
    /\ pc' = "solve_full"
    /\ UNCHANGED <<portfolio_data, session_state, view, res_delta, res_full,
                   hedge_scenarios, trades, edits>>

SolveFull ==
    /\ pc = "solve_full"
    /\ LET t == Targets(session_state.net_greeks)
       IN  IF t.full = t.delta
           THEN res_full' = res_delta
           ELSE IF t.full = t.dv
           THEN res_full' = res_dv
           ELSE res_full' \in Minimize(session_state, t.full)
    /\ pc' = "table"
    /\ UNCHANGED <<portfolio_data, session_state, view, res_delta, res_dv,
                   hedge_scenarios, trades, edits>>

(***************************************************************************)
(* The results block: the scenario table and the recommended trades.       *)
(***************************************************************************)
\* One row of hedge_scenarios.  Every cell is formatted ",.0f".  The residual
\* vega of the first scenario is the hedge vega itself.
ScenarioRow(ss, name, res, vega_target) ==
    [Scenario |-> name,
     position |-> [i \in Hedges |-> RoundHalfEven(res.x[i], QtyUnit)],
     cost |-> RoundHalfEven(AbsCost(ss, res.x), Unit * QtyUnit),
     residual_delta |->
         RoundHalfEven(GreekGap(ss, "Delta_per_bbl", res.x, ss.net_greeks.delta),
                       Unit * QtyUnit),
     residual_vega |->
         RoundHalfEven(GreekGap(ss, "Vega_per_bbl", res.x, vega_target),
                       Unit * QtyUnit)]

ShowScenarios ==
    /\ pc = "table"
    /\ hedge_scenarios' =
         << ScenarioRow(session_state, "Delta-Neutral", res_delta, 0),
            ScenarioRow(session_state, "Delta+Vega Neutral", res_dv,
                        session_state.net_greeks.vega),
            ScenarioRow(session_state, "Full Greek Neutral", res_full,
                        session_state.net_greeks.vega) >>
    /\ pc' = "trades"
    /\ UNCHANGED <<portfolio_data, session_state, view, res_delta, res_dv,
                   res_full, trades, edits>>

\* res_full.x.round(0).astype(int)
best_hedge(res) == [i \in Hedges |-> RoundHalfEven(res.x[i], QtyUnit)]

\* if abs(qty) > 10
Traded(qty) == Abs(qty) > Band

\* Faulty variant of Direction: the comparison is reversed.
Direction_Flipped(qty) == IF qty < 0 THEN "BUY" ELSE "SELL"

\* "BUY" if qty > 0 else "SELL"
Direction(qty) == IF qty > 0 THEN "BUY" ELSE "SELL"

\* The st.success line of one instrument; the cost is formatted ",.0f".
Trade(ss, i, qty) ==
    [direction |-> Direction(qty), bbl |-> Abs(qty), name |-> ss.hedge_names[i],
     cost |-> RoundHalfEven(ss.hedge_costs[i] * Abs(qty), Unit)]

RECURSIVE TradesFrom(_, _, _)
TradesFrom(ss, qtys, i) ==
    IF i > Len(qtys) THEN <<>>
    ELSE (IF Traded(qtys[i]) THEN <<Trade(ss, i, qtys[i])>> ELSE <<>>)
         \o TradesFrom(ss, qtys, i + 1)

RecommendTrades ==
    /\ pc = "trades"
    /\ trades' = TradesFrom(session_state, best_hedge(res_full), 1)
    /\ pc' = "done"
    /\ UNCHANGED <<portfolio_data, session_state, view, res_delta, res_dv,
                   res_full, hedge_scenarios, edits>>

(***************************************************************************)
(* SpecHedge: the results block after a scan.  The scanned book is one row *)
(* of HedgeLot bbl, the first option of the default table or the future,   *)
(* Long or Short.                                                          *)
(***************************************************************************)
HedgeBooks ==
    { << [r EXCEPT !.LongShort = ls, !.Position_bbl = Num(HedgeLot)] >> :
        r \in { DefaultPortfolio[1], DefaultPortfolio[Len(DefaultPortfolio)] },
        ls \in {"Long", "Short"} }

InitHedge ==
    /\ portfolio_data \in HedgeBooks
    /\ session_state = ScanResult(portfolio_data)
    /\ view = ShowResults(session_state)
    /\ pc = "solve_delta"
    /\ res_delta = NotRun
    /\ res_dv = NotRun
    /\ res_full = NotRun
    /\ hedge_scenarios = <<>>
    /\ trades = <<>>
    /\ edits = 0

NextHedge ==
    \/ SolveDelta
    \/ SolveDV
    \/ SolveFull
    \/ ShowScenarios
    \/ RecommendTrades

SpecHedge == InitHedge /\ [][NextHedge]_vars

(***************************************************************************)
(* SpecTrades: the table and the trade list as functions of the solver's   *)
(* result.  The book is a future, for which the three solves have the same *)
(* arguments and so the same result: any quantities of up to TradeQMax     *)
(* half barrels on one or two legs, left by a solve that ran out of        *)
(* iterations.                                                             *)
(***************************************************************************)
TradeIterates ==
    { Pair(i, a, j, b) : i \in Hedges, j \in Hedges,
                         a \in -TradeQMax..TradeQMax, b \in -TradeQMax..TradeQMax }

InitTrades ==
    /\ portfolio_data = << [DefaultPortfolio[Len(DefaultPortfolio)]
                              EXCEPT !.LongShort = "Long",
                                     !.Position_bbl = Num(HedgeLot)] >>
    /\ session_state = ScanResult(portfolio_data)
    /\ view = ShowResults(session_state)
    /\ pc = "table"
    /\ \E x \in TradeIterates :
          res_delta = [ran |-> TRUE, x |-> x, success |-> FALSE]
    /\ res_dv = res_delta
    /\ res_full = res_delta
    /\ hedge_scenarios = <<>>
    /\ trades = <<>>
    /\ edits = 0

NextTrades ==
    \/ ShowScenarios
    \/ RecommendTrades

SpecTrades == InitTrades /\ [][NextTrades]_vars

(***************************************************************************)
(* Properties.                                                             *)
(***************************************************************************)
Done == pc = "done"

Scanned == HasResults(session_state)

ZeroGreeks == [delta |-> 0, gamma |-> 0, vega |-> 0, theta |-> 0]

\* The signed quantity of a row: +size for Long, -size for Short.
SignedQty(r) ==
    IF r.LongShort = "Short" THEN -Val(r.Position_bbl) ELSE Val(r.Position_bbl)

ValidDirection(r) == r.LongShort \in {"Long", "Short"}

\* Sum over the rows that hold a position of signed quantity times the
\* long-basis per-unit Greek.
RECURSIVE SignedSum(_, _)
SignedSum(rows, col) ==
    IF rows = <<>> THEN 0
    ELSE LET r == rows[Len(rows)]
         IN  SignedSum(SubSeq(rows, 1, Len(rows) - 1), col)
             + (IF IsNaN(r.Position_bbl) THEN 0 ELSE SignedQty(r) * Val(r[col]))

SignedGreeks(rows) ==
    [delta |-> SignedSum(rows, "Delta_per_bbl"),
     gamma |-> SignedSum(rows, "Gamma_per_bbl"),
     vega |-> SignedSum(rows, "Vega_per_bbl"),
     theta |-> SignedSum(rows, "Theta_per_bbl")]

\* The delta exposure of a quantity vector, in 1/(Unit * QtyUnit) bbl.
HedgeDelta(x) == Dot(session_state.hedge_greeks.Delta_per_bbl, x)

\* Sum over the instruments of |quantity| * cost, in 1/(Unit * QtyUnit) dollars.
SumLegCosts(x) ==
    Dot([i \in Hedges |-> 1],
        [i \in Hedges |-> Abs(x[i]) * session_state.hedge_costs[i]])

\* C1 (stated on the code's hedge menu): a delta-neutral solve that converged
\* to the optimum (objective zero: no Greek gap and no cost) holds a hedge
\* whose delta exposure is the negative of the portfolio's net delta, so that
\* portfolio delta plus hedge delta is zero.
C1_HedgeDeltaOffsetsNetDelta ==
    (res_delta.ran /\ res_delta.success
        /\ hedge_cost(session_state, res_delta.x,
                      Targets(session_state.net_greeks).delta) = 0)
    => HedgeDelta(res_delta.x) + QtyUnit * session_state.net_greeks.delta = 0

\* C2: in a scanned table whose rows are all Long or Short, each net Greek is
\* the sum over the rows of signed quantity times the long-basis per-unit
\* Greek, and a Short row's stored effective Greek is the negation of the
\* long-basis value the same row would contribute with as Long.
C2_NetGreeksAreSignedSums ==
    (Scanned /\ \A i \in 1..Len(portfolio_data) : ValidDirection(portfolio_data[i]))
    => /\ session_state.net_greeks = SignedGreeks(portfolio_data)
       /\ \A i \in 1..Len(session_state.portfolio) :
            LET r == session_state.portfolio[i]
                asLong == WithEffective([r EXCEPT !.LongShort = "Long"])
                asShort == WithEffective([r EXCEPT !.LongShort = "Short"])
            IN  /\ Val(asShort.effective_delta) = -Val(asLong.effective_delta)
                /\ Val(asShort.effective_gamma) = -Val(asLong.effective_gamma)
                /\ Val(asShort.effective_vega) = -Val(asLong.effective_vega)
                /\ Val(asShort.effective_theta) = -Val(asLong.effective_theta)
                /\ Val(r.effective_delta) * Val(r.Position_bbl)
                     = SignedQty(r) * Val(r.Delta_per_bbl)

C2_Witness ==
    /\ Scanned
    /\ Len(portfolio_data) = 2
    /\ portfolio_data[1].LongShort = "Long"
    /\ portfolio_data[2].LongShort = "Short"
    /\ portfolio_data[1].Instrument # portfolio_data[2].Instrument
    /\ portfolio_data[2].Instrument = "WTI Future"
    /\ \A i \in 1..2 : ~IsNaN(portfolio_data[i].Position_bbl)
                       /\ Val(portfolio_data[i].Position_bbl) > 0
    /\ session_state.net_greeks.delta < 0

\* C3: the total cost reported for every scenario is the sum over the hedge
\* instruments of |quantity| * cost.
C3_CostIsSumOfLegCosts ==
    (pc \in {"trades", "done"})
    => /\ hedge_scenarios[1].cost
            = RoundHalfEven(SumLegCosts(res_delta.x), Unit * QtyUnit)
       /\ hedge_scenarios[2].cost
            = RoundHalfEven(SumLegCosts(res_dv.x), Unit * QtyUnit)
       /\ hedge_scenarios[3].cost
            = RoundHalfEven(SumLegCosts(res_full.x), Unit * QtyUnit)

C5_NonConvergedNotShown ==
    Done
    => /\ ~res_delta.success
            => hedge_scenarios[1].position # best_hedge(res_delta)
       /\ ~res_dv.success
            => hedge_scenarios[2].position # best_hedge(res_dv)
       /\ ~res_full.success
            => /\ hedge_scenarios[3].position # best_hedge(res_full)
               /\ trades = <<>>

\* C6: no row whose Long/Short value is neither Long nor Short, and no row
\* whose instrument is not recognised, is part of a stored scan.
C6_InvalidRowsRejected ==
    Scanned
    => \A i \in 1..Len(session_state.portfolio) :
         /\ ValidDirection(session_state.portfolio[i])
         /\ session_state.portfolio[i].Instrument # "None"

\* C7: a futures row of signed quantity q # 0 contributes q to net delta and
\* 0 to net gamma, net vega and net theta.
C7_FuturesContribution ==
    Scanned
    => \A i \in 1..Len(session_state.portfolio) :
         LET r == session_state.portfolio[i]
             part(eff) == IF IsNaN(eff) THEN 0 ELSE Val(eff) * Val(r.Position_bbl)
         IN  (r.Instrument = "WTI Future" /\ ValidDirection(r)
                /\ Val(r.Position_bbl) # 0)
             => /\ part(r.effective_delta) = SignedQty(r) * Unit
                /\ part(r.effective_gamma) = 0
                /\ part(r.effective_vega) = 0
                /\ part(r.effective_theta) = 0

\* C8: once the trade list is rendered, an instrument has a trade exactly
\* when the magnitude of its rounded quantity exceeds the band of 10 bbl; the
\* trade reads BUY exactly when that quantity is positive and SELL exactly
\* when it is negative, and its size is the magnitude.
C8_TradeLabels ==
    Done
    => LET qty == [i \in Hedges |-> RoundHalfEven(res_full.x[i], QtyUnit)]
           shown(i) == { k \in 1..Len(trades) :
                           trades[k].name = session_state.hedge_names[i] }
       IN  \A i \in Hedges :
             /\ (Abs(qty[i]) <= Band) => shown(i) = {}
             /\ (Abs(qty[i]) > Band)
                  => /\ Cardinality(shown(i)) = 1
                     /\ \A k \in shown(i) :
                          /\ trades[k].bbl = Abs(qty[i])
                          /\ (trades[k].direction = "BUY") <=> (qty[i] > 0)
                          /\ (trades[k].direction = "SELL") <=> (qty[i] < 0)

\* One SELL is recommended, and a quantity of 10.5 bbl, which rounds to the
\* band, is not.
C8_Witness ==
    /\ Done
    /\ Len(trades) = 1
    /\ trades[1].direction = "SELL"
    /\ \E i \in Hedges : res_full.x[i] = QtyUnit * Band + 1

\* C9: a stored scan of a table with no row, or whose rows all have size
\* zero, has net delta, gamma, vega and theta all zero.
C9_EmptyOrZeroScanIsZero ==
    (Scanned /\ \A i \in 1..Len(session_state.portfolio) :
                   Val(session_state.portfolio[i].Position_bbl) = 0)
    => session_state.net_greeks = ZeroGreeks

\* A table of rows that all have size zero has been scanned after an edit.
C9_Witness ==
    /\ Scanned
    /\ edits > 0
    /\ Len(session_state.portfolio) > 0
    /\ \A i \in 1..Len(session_state.portfolio) :
          /\ Val(session_state.portfolio[i].Position_bbl) = 0
          /\ ~IsNaN(session_state.portfolio[i].Delta_per_bbl)
          /\ Val(session_state.portfolio[i].Delta_per_bbl) # 0
    /\ view.metrics = ZeroGreeks

\* C10: a scanned table of two rows with the same per-unit Greeks and the
\* same size, one Long and one Short, has all four net Greeks zero.
C10_LongShortCancel ==
    (/\ Scanned
     /\ Len(portfolio_data) = 2
     /\ portfolio_data[1].LongShort = "Long"
     /\ portfolio_data[2].LongShort = "Short"
     /\ ~IsNaN(portfolio_data[1].Position_bbl)
     /\ portfolio_data[2] = [portfolio_data[1] EXCEPT !.LongShort = "Short"])
    => session_state.net_greeks = ZeroGreeks

C10_Witness ==
    /\ Scanned
    /\ Len(portfolio_data) = 2
    /\ portfolio_data[1].LongShort = "Long"
    /\ portfolio_data[1].Instrument = "Call 80"
    /\ portfolio_data[1].Position_bbl = Num(MaxLots * Step)
    /\ portfolio_data[2] = [portfolio_data[1] EXCEPT !.LongShort = "Short"]
    /\ session_state.net_greeks = ZeroGreeks

====
